---- MODULE Spec2Model ----
(***************************************************************************)
(* A state-machine model of SceneManager (src/SceneManager.cpp): the       *)
(* texture registry, the material registry, the transform composer, the   *)
(* shader state binder and the Prepare/Render scene script, together with  *)
(* the parts of the OpenGL context and of the shader-parameter interface   *)
(* that SceneManager writes.                                               *)
(*                                                                         *)
(* Lengths are integers.  In the scene script they are hundredths of a     *)
(* unit (0.7f is 70); colours of materials are thousandths (0.502f is      *)
(* 502).  Rotations are whole degrees and multiples of 90, for which sine  *)
(* and cosine are taken as the exact integers -1, 0, 1.                    *)
(***************************************************************************)
EXTENDS Integers, Sequences, FiniteSets, TLC

\* ------------------------------------------------------------------ bounds
\* no texture load starts once the GL context has handed out this many
\* texture names
MaxNames == 4
\* most DefineObjectMaterials calls in the binder scenario
MaxDefines == 2
\* most PrepareScene calls in the scene scenario
MaxPrepares == 4
\* most image files of the scene scenario that are not loadable
MaxBadFiles == 2

\* --------------------------------------------------------------- constants
\* slots of m_textureIDs, "There are up to 16 slots"
TextureSlots == 16

\* the uniform names of the anonymous namespace
g_ModelName == "model"
g_ColorValueName == "objectColor"
g_TextureValueName == "objectTexture"
g_UseTextureName == "bUseTexture"
g_UseLightingName == "bUseLighting"

VARIABLES
    m_pShaderManager,   \* "shader" or "null": the constructor's argument
    m_textureIDs,       \* [0..TextureSlots-1 -> [ID, tag]], and what was written
                        \* to the memory after the array, by index
    m_loadedTextures,   \* number of registered textures
    m_objectMaterials,  \* sequence of [tag, diffuseColor, specularColor, shininess]
    m_basicMeshes,      \* [mesh kind -> number of Load*Mesh calls]
    imageFiles,         \* the image decoder's view of the disk: [file -> channels], 0 = cannot be decoded
    glNextName,         \* the next texture name glGenTextures returns
    glTextures,         \* the texture names generated and not deleted
    glActiveUnit,       \* the unit selected by glActiveTexture
    glUnitBinding,      \* [unit -> texture name bound to GL_TEXTURE_2D], 0 = none
    uniforms,           \* the shader program's uniform store
    glCalls,            \* what the last operation did, in order: its uniform uploads,
                        \* draw submissions, texture loads and bindings, material
                        \* definitions and mesh loads
    crashed,            \* a null shader manager was dereferenced
    prepares,           \* number of PrepareScene calls so far
    lastCall,           \* the last operation and its arguments
    lastRet,            \* its integer result (bool as 0/1)
    lastSlot            \* unit of the last successfully loaded new tag, -1 if the
                        \* last successful load re-used a tag or none happened

vars == <<m_pShaderManager, m_textureIDs, m_loadedTextures, m_objectMaterials,
          m_basicMeshes, imageFiles, glNextName, glTextures, glActiveUnit,
          glUnitBinding, uniforms, glCalls, crashed, prepares, lastCall,
          lastRet, lastSlot>>

\* ------------------------------------------------------------ 4x4 matrices
\* glm::mat4(1.0f)
Identity4 ==
    << <<1, 0, 0, 0>>, <<0, 1, 0, 0>>, <<0, 0, 1, 0>>, <<0, 0, 0, 1>> >>

Zero4 ==
    << <<0, 0, 0, 0>>, <<0, 0, 0, 0>>, <<0, 0, 0, 0>>, <<0, 0, 0, 0>> >>

\* row i of A times column j of B
Dot4(A, B, i, j) ==
    A[i][1] * B[1][j] + A[i][2] * B[2][j] + A[i][3] * B[3][j] + A[i][4] * B[4][j]

MatRow(A, B, i) == <<Dot4(A, B, i, 1), Dot4(A, B, i, 2), Dot4(A, B, i, 3), Dot4(A, B, i, 4)>>

\* glm operator*(mat4, mat4)
MatMul(A, B) == <<MatRow(A, B, 1), MatRow(A, B, 2), MatRow(A, B, 3), MatRow(A, B, 4)>>

\* cos and sin of a multiple of 90 degrees
Cos90(deg) ==
    LET d == deg % 360
    IN  IF d = 0 THEN 1 ELSE IF d = 180 THEN -1 ELSE 0

Sin90(deg) ==
    LET d == deg % 360
    IN  IF d = 90 THEN 1 ELSE IF d = 270 THEN -1 ELSE 0

\* glm::scale(v): the diagonal matrix of v
GlmScale(v) ==
    << <<v[1], 0, 0, 0>>, <<0, v[2], 0, 0>>, <<0, 0, v[3], 0>>, <<0, 0, 0, 1>> >>

\* glm::translate(v): the identity with v in the fourth column
GlmTranslate(v) ==
    << <<1, 0, 0, v[1]>>, <<0, 1, 0, v[2]>>, <<0, 0, 1, v[3]>>, <<0, 0, 0, 1>> >>

\* glm::rotate(glm::radians(deg), axis) for a unit axis a: the axis-angle
\* matrix c*I + (1-c)*a*a^T + s*[a]x
GlmRotate(deg, a) ==
    LET c == Cos90(deg)
        s == Sin90(deg)
        t == 1 - c
    IN  << <<c + t * a[1] * a[1],        t * a[1] * a[2] - s * a[3], t * a[1] * a[3] + s * a[2], 0>>,
           <<t * a[2] * a[1] + s * a[3], c + t * a[2] * a[2],        t * a[2] * a[3] - s * a[1], 0>>,
           <<t * a[3] * a[1] - s * a[2], t * a[3] * a[2] + s * a[1], c + t * a[3] * a[3],        0>>,
           <<0, 0, 0, 1>> >>

\* the product with the rotations about X, Y and Z in the opposite order
ModelViewXYZ(scaleXYZ, XrotationDegrees, YrotationDegrees, ZrotationDegrees, positionXYZ) ==
    MatMul(GlmTranslate(positionXYZ),
      MatMul(GlmRotate(XrotationDegrees, <<1, 0, 0>>),
        MatMul(GlmRotate(YrotationDegrees, <<0, 1, 0>>),
          MatMul(GlmRotate(ZrotationDegrees, <<0, 0, 1>>),
            GlmScale(scaleXYZ)))))

\* modelView = translation * rotationZ * rotationY * rotationX * scale
ModelView(scaleXYZ, XrotationDegrees, YrotationDegrees, ZrotationDegrees, positionXYZ) ==
    MatMul(GlmTranslate(positionXYZ),
      MatMul(GlmRotate(ZrotationDegrees, <<0, 0, 1>>),
        MatMul(GlmRotate(YrotationDegrees, <<0, 1, 0>>),
          MatMul(GlmRotate(XrotationDegrees, <<1, 0, 0>>),
            GlmScale(scaleXYZ)))))

\* ------------------------------------------------------------ program state
\* the program state as one record, so that a handler is the composition of
\* the calls it makes
Cur ==
    [m_textureIDs |-> m_textureIDs, m_loadedTextures |-> m_loadedTextures,
     m_objectMaterials |-> m_objectMaterials, m_basicMeshes |-> m_basicMeshes,
     glNextName |-> glNextName, glTextures |-> glTextures,
     glActiveUnit |-> glActiveUnit, glUnitBinding |-> glUnitBinding,
     uniforms |-> uniforms, glCalls |-> <<>>, crashed |-> crashed, ret |-> 0,
     faults |-> FALSE]

\* the program state in a build where a write past the end of m_textureIDs
\* faults (f) or lands in the memory after the array (not f)
Faulting(f) == [Cur EXCEPT !.faults = f]

\* the image files of LoadSceneTextures
SceneFiles ==
    {"textures/Floor.jpg", "textures/Leg.jpg", "textures/Tabletop.jpg",
     "textures/Plate.jpg", "textures/Mug.jpg"}

\* stbi_load: the channel count of the decoded image, 0 for a null image
ImageOutcomes == 0..4

stbi_load(filename) == imageFiles[filename]

\* the primitive kinds of ShapeMeshes that PrepareScene loads
MeshKinds == {"Plane", "Box", "TaperedCylinder", "Cylinder", "Torus"}

\* a default-constructed TEXTURE_INFO
NoTexture == [ID |-> 0, tag |-> ""]

\* nothing after the dereference of a null pointer runs
Live(s, t) == IF s.crashed THEN s ELSE t

\* ------------------------------------------------------- texture registry
\* CreateGLTexture that registers the texture before it looks at the format
CreateGLTextureRegistersAnyFormat(s, filename, tag) ==
    LET colorChannels == stbi_load(filename)
        textureID == s.glNextName
    IN  IF colorChannels # 0
        THEN [s EXCEPT !.glNextName = textureID + 1,
                       !.glTextures = @ \cup {textureID},
                       !.m_textureIDs[s.m_loadedTextures] = [ID |-> textureID, tag |-> tag],
                       !.m_loadedTextures = @ + 1,
                       !.ret = IF colorChannels \in {3, 4} THEN 1 ELSE 0]
        ELSE [s EXCEPT !.ret = 0]

\* bool CreateGLTexture(const char* filename, std::string tag)
CreateGLTexture(s, filename, tag) ==
    LET colorChannels == stbi_load(filename)
        textureID == s.glNextName
        called == [s EXCEPT !.glCalls = Append(@, <<"CreateGLTexture", tag, <<colorChannels>> >>)]
        \* glGenTextures(1, &textureID); glBindTexture(GL_TEXTURE_2D, textureID)
        generated ==
            [called EXCEPT !.glNextName = textureID + 1,
                      !.glTextures = @ \cup {textureID},
                      !.glUnitBinding[s.glActiveUnit] = textureID]
        \* glBindTexture(GL_TEXTURE_2D, 0)
        unbound == [generated EXCEPT !.glUnitBinding[s.glActiveUnit] = 0]
        entry == [ID |-> textureID, tag |-> tag]
    IN  IF s.crashed
        THEN s
        ELSE IF colorChannels # 0
        THEN IF colorChannels \in {3, 4}
             THEN \* register at m_textureIDs[m_loadedTextures]: there is no
                  \* check of the index against the size of the array
                  IF s.m_loadedTextures < TextureSlots
                  THEN [unbound EXCEPT
                           !.m_textureIDs[s.m_loadedTextures] = entry,
                           !.m_loadedTextures = @ + 1,
                           !.ret = 1]
                  ELSE IF s.faults
                  THEN [unbound EXCEPT !.crashed = TRUE]
                  ELSE [unbound EXCEPT
                           !.m_textureIDs = (s.m_loadedTextures :> entry) @@ @,
                           !.m_loadedTextures = @ + 1,
                           !.ret = 1]
             ELSE [generated EXCEPT !.ret = 0]
        ELSE [called EXCEPT !.ret = 0]

RECURSIVE BindFrom(_, _)
\* the loop of BindGLTextures from index i on; the context has a unit for
\* every index the loop selects
BindFrom(s, i) ==
    IF ~s.crashed /\ i < s.m_loadedTextures
    THEN BindFrom([s EXCEPT !.glActiveUnit = i,
                            !.glUnitBinding = (i :> s.m_textureIDs[i].ID) @@ @,
                            !.glCalls = Append(@, <<"glBindTexture", "GL_TEXTURE_2D",
                                                    <<i, s.m_textureIDs[i].ID>> >>)], i + 1)
    ELSE s

RECURSIVE BindFromNoActiveTexture(_, _)
\* the loop of BindGLTextures without its glActiveTexture call
BindFromNoActiveTexture(s, i) ==
    IF i < s.m_loadedTextures
    THEN BindFromNoActiveTexture(
             [s EXCEPT !.glUnitBinding[s.glActiveUnit] = s.m_textureIDs[i].ID], i + 1)
    ELSE s

BindGLTexturesOneUnit(s) == BindFromNoActiveTexture(s, 0)

\* void BindGLTextures()
BindGLTextures(s) == BindFrom(s, 0)

RECURSIVE DestroyFrom(_, _)
\* the loop of DestroyGLTextures from index i on:
\* glGenTextures(1, &m_textureIDs[i].ID) generates a name and stores it in the
\* entry; nothing is deleted
DestroyFrom(s, i) ==
    IF i < s.m_loadedTextures
    THEN DestroyFrom([s EXCEPT !.glNextName = @ + 1,
                               !.glTextures = @ \cup {s.glNextName},
                               !.m_textureIDs[i].ID = s.glNextName,
                               !.glCalls = Append(@, <<"glGenTextures", "", <<s.glNextName>> >>)],
                     i + 1)
    ELSE s

\* void DestroyGLTextures()
DestroyGLTextures(s) == DestroyFrom(s, 0)

RECURSIVE ScanTextures(_, _, _)
\* the while loop of FindTextureID and FindTextureSlot: the index of the first
\* entry from index on whose tag compares equal, m_loadedTextures if none
ScanTextures(s, tag, index) ==
    IF index < s.m_loadedTextures
    THEN IF s.m_textureIDs[index].tag = tag
         THEN index
         ELSE ScanTextures(s, tag, index + 1)
    ELSE index

RECURSIVE ScanTexturesLast(_, _, _, _)
\* a scan that does not stop at the first match
ScanTexturesLast(s, tag, index, hit) ==
    IF index < s.m_loadedTextures
    THEN ScanTexturesLast(s, tag, index + 1,
             IF s.m_textureIDs[index].tag = tag THEN index ELSE hit)
    ELSE hit

FindTextureSlotLastMatch(s, tag) == ScanTexturesLast(s, tag, 0, -1)

FindTextureSlotDefaultZero(s, tag) ==
    LET index == ScanTextures(s, tag, 0)
    IN  IF index < s.m_loadedTextures THEN index ELSE 0

\* int FindTextureSlot(std::string tag)
FindTextureSlot(s, tag) ==
    LET index == ScanTextures(s, tag, 0)
    IN  IF index < s.m_loadedTextures THEN index ELSE -1

\* int FindTextureID(std::string tag)
FindTextureID(s, tag) ==
    LET index == ScanTextures(s, tag, 0)
    IN  IF index < s.m_loadedTextures THEN s.m_textureIDs[index].ID ELSE -1

\* ------------------------------------------------------ shader parameters
\* a call through m_pShaderManager: the upload of val under name, or the
\* dereference of a null pointer
ShaderSet(s, fn, name, val) ==
    Live(s, IF m_pShaderManager = "null"
            THEN [s EXCEPT !.crashed = TRUE]
            ELSE [s EXCEPT !.uniforms[name] = val,
                           !.glCalls = Append(@, <<fn, name, val>>)])

RECURSIVE ShaderSetAll(_, _, _)
\* the calls of the sequence settings from the i-th on, in order
ShaderSetAll(s, settings, i) ==
    IF s.crashed \/ i > Len(settings)
    THEN s
    ELSE ShaderSetAll(ShaderSet(s, settings[i][1], settings[i][2], settings[i][3]),
                      settings, i + 1)

\* the names of the light uniforms, in the order SetupSceneLights writes them
\* (vectors in thousandths, booleans as 0/1)
SceneLights ==
    << <<"setVec3Value", "directionalLight.direction", <<-6000, 5000, 5000>> >>,
       <<"setVec3Value", "directionalLight.ambient", <<400, 400, 400>> >>,
       <<"setVec3Value", "directionalLight.diffuse", <<600, 600, 600>> >>,
       <<"setVec3Value", "directionalLight.specular", <<0, 0, 0>> >>,
       <<"setBoolValue", "directionalLight.bActive", <<1>> >>,
       <<"setVec3Value", "pointLights[0].position", <<0, 15000, -8000>> >>,
       <<"setVec3Value", "pointLights[0].ambient", <<30, 30, 0>> >>,
       <<"setVec3Value", "pointLights[0].diffuse", <<400, 400, 0>> >>,
       <<"setVec3Value", "pointLights[0].specular", <<1000, 1000, 0>> >>,
       <<"setBoolValue", "pointLights[0].bActive", <<1>> >>,
       <<"setVec3Value", "pointLights[1].position", <<5000, 0, 10000>> >>,
       <<"setVec3Value", "pointLights[1].ambient", <<0, 0, 0>> >>,
       <<"setVec3Value", "pointLights[1].diffuse", <<200, 200, 0>> >>,
       <<"setVec3Value", "pointLights[1].specular", <<1000, 1000, 0>> >>,
       <<"setBoolValue", "pointLights[1].bActive", <<1>> >>,
       <<"setVec3Value", "pointLights[2].position", <<-5000, 0, 10000>> >>,
       <<"setVec3Value", "pointLights[2].ambient", <<0, 0, 0>> >>,
       <<"setVec3Value", "pointLights[2].diffuse", <<200, 200, 0>> >>,
       <<"setVec3Value", "pointLights[2].specular", <<1000, 1000, 0>> >>,
       <<"setBoolValue", "pointLights[2].bActive", <<1>> >>,
       <<"setBoolValue", g_UseLightingName, <<1>> >> >>

\* the uniforms SceneManager writes
UniformNames ==
    {g_ModelName, g_ColorValueName, g_TextureValueName, g_UseTextureName, "UVscale",
     "material.diffuseColor", "material.specularColor", "material.shininess"}
    \cup {SceneLights[i][2] : i \in DOMAIN SceneLights}

\* the value of a uniform of a freshly linked program: zero
UniformDefault(name) ==
    IF name = g_ModelName THEN Zero4
    ELSE IF name = g_ColorValueName THEN <<0, 0, 0, 0>>
    ELSE IF name = "UVscale" THEN <<0, 0>>
    ELSE IF name \in {g_TextureValueName, g_UseTextureName, g_UseLightingName,
                      "material.shininess"} THEN <<0>>
    ELSE IF \E i \in DOMAIN SceneLights :
                SceneLights[i][2] = name /\ SceneLights[i][1] = "setBoolValue" THEN <<0>>
    ELSE <<0, 0, 0>>

\* ------------------------------------------------------ transform composer
\* void SetTransformations(scaleXYZ, XrotationDegrees, YrotationDegrees,
\*                         ZrotationDegrees, positionXYZ)
SetTransformations(s, scaleXYZ, XrotationDegrees, YrotationDegrees, ZrotationDegrees, positionXYZ) ==
    LET modelView == ModelView(scaleXYZ, XrotationDegrees, YrotationDegrees,
                               ZrotationDegrees, positionXYZ)
    IN  IF m_pShaderManager # "null"
        THEN ShaderSet(s, "setMat4Value", g_ModelName, modelView)
        ELSE s

\* ------------------------------------------------------ shader state binder
\* SetShaderColor that uploads the colour and leaves bUseTexture alone
SetShaderColorKeepsTexture(s, redColorValue, greenColorValue, blueColorValue, alphaValue) ==
    LET currentColor == <<redColorValue, greenColorValue, blueColorValue, alphaValue>>
    IN  IF m_pShaderManager # "null"
        THEN ShaderSet(s, "setVec4Value", g_ColorValueName, currentColor)
        ELSE s

\* void SetShaderColor(redColorValue, greenColorValue, blueColorValue, alphaValue)
SetShaderColor(s, redColorValue, greenColorValue, blueColorValue, alphaValue) ==
    LET currentColor == <<redColorValue, greenColorValue, blueColorValue, alphaValue>>
    IN  IF m_pShaderManager # "null"
        THEN ShaderSet(ShaderSet(s, "setIntValue", g_UseTextureName, <<0>>),
                       "setVec4Value", g_ColorValueName, currentColor)
        ELSE s

\* SetShaderTexture that falls back to the flat colour when the tag is not
\* registered
SetShaderTextureFallsBack(s, textureTag) ==
    IF m_pShaderManager # "null"
    THEN LET textureID == FindTextureSlot(s, textureTag)
         IN  IF textureID = -1
             THEN ShaderSet(s, "setIntValue", g_UseTextureName, <<0>>)
             ELSE ShaderSet(ShaderSet(s, "setIntValue", g_UseTextureName, <<1>>),
                            "setSampler2DValue", g_TextureValueName, <<textureID>>)
    ELSE s

\* void SetShaderTexture(std::string textureTag)
SetShaderTexture(s, textureTag) ==
    IF m_pShaderManager # "null"
    THEN LET enabled == ShaderSet(s, "setIntValue", g_UseTextureName, <<1>>)
             textureID == FindTextureSlot(s, textureTag)
         IN  ShaderSet(enabled, "setSampler2DValue", g_TextureValueName, <<textureID>>)
    ELSE s

\* void SetTextureUVScale(float u, float v)
SetTextureUVScale(s, u, v) ==
    IF m_pShaderManager # "null"
    THEN ShaderSet(s, "setVec2Value", "UVscale", <<u, v>>)
    ELSE s

\* ------------------------------------------------------- material registry
RECURSIVE ScanMaterials(_, _, _)
\* the while loop of FindMaterial: the index (from 0) of the first entry from
\* index on whose tag compares equal, the size of the list if none
ScanMaterials(s, tag, index) ==
    IF index < Len(s.m_objectMaterials)
    THEN IF s.m_objectMaterials[index + 1].tag = tag
         THEN index
         ELSE ScanMaterials(s, tag, index + 1)
    ELSE index

\* bool FindMaterial(std::string tag, OBJECT_MATERIAL& material): the result
\* and the caller's material after the call
FindMaterial(s, tag, material) ==
    IF Len(s.m_objectMaterials) = 0
    THEN [ret |-> 0, material |-> material]
    ELSE LET index == ScanMaterials(s, tag, 0)
         IN  IF index < Len(s.m_objectMaterials)
             THEN [ret |-> 1,
                   material |->
                       [material EXCEPT
                           !.diffuseColor = s.m_objectMaterials[index + 1].diffuseColor,
                           !.specularColor = s.m_objectMaterials[index + 1].specularColor,
                           !.shininess = s.m_objectMaterials[index + 1].shininess]]
             ELSE [ret |-> 1, material |-> material]

\* void SetShaderMaterial(std::string materialTag); material is what the
\* uninitialised local OBJECT_MATERIAL holds when it is declared
SetShaderMaterial(s, materialTag, material) ==
    IF Len(s.m_objectMaterials) > 0
    THEN LET found == FindMaterial(s, materialTag, material)
         IN  IF found.ret = 1
             THEN ShaderSetAll(s,
                      << <<"setVec3Value", "material.diffuseColor", found.material.diffuseColor>>,
                         <<"setVec3Value", "material.specularColor", found.material.specularColor>>,
                         <<"setFloatValue", "material.shininess", <<found.material.shininess>> >> >>,
                      1)
             ELSE s
    ELSE s

\* the presets of DefineObjectMaterials, in the order they are pushed
\* (colours in thousandths, shininess in units)
ScenePresets ==
    << [tag |-> "gravel", diffuseColor |-> <<502, 502, 502>>,
        specularColor |-> <<502, 502, 502>>, shininess |-> 20],
       [tag |-> "metal", diffuseColor |-> <<0, 0, 0>>,
        specularColor |-> <<780, 780, 780>>, shininess |-> 85],
       [tag |-> "wood", diffuseColor |-> <<300, 250, 240>>,
        specularColor |-> <<660, 260, 180>>, shininess |-> 80],
       [tag |-> "porcelain", diffuseColor |-> <<960, 960, 960>>,
        specularColor |-> <<780, 780, 780>>, shininess |-> 80],
       [tag |-> "glass", diffuseColor |-> <<1000, 1000, 1000>>,
        specularColor |-> <<210, 210, 210>>, shininess |-> 95] >>

\* void DefineObjectMaterials()
DefineObjectMaterials(s) ==
    Live(s, [s EXCEPT !.m_objectMaterials = @ \o ScenePresets,
                      !.glCalls = @ \o [i \in DOMAIN ScenePresets |->
                                           <<"push_back", ScenePresets[i].tag, <<>> >>]])

\* void SetupSceneLights()
SetupSceneLights(s) == ShaderSetAll(s, SceneLights, 1)

\* ------------------------------------------------------------ scene script
\* the (file, tag) pairs of LoadSceneTextures, in call order
SceneTextures ==
    << <<"textures/Floor.jpg", "floor">>,
       <<"textures/Leg.jpg", "leg">>,
       <<"textures/Tabletop.jpg", "tabletop">>,
       <<"textures/Plate.jpg", "plate">>,
       <<"textures/Mug.jpg", "mug">> >>

RECURSIVE LoadTexturesFrom(_, _)
\* the CreateGLTexture calls of LoadSceneTextures from the i-th on; bReturn
\* is overwritten and never read
LoadTexturesFrom(s, i) ==
    IF i > Len(SceneTextures)
    THEN s
    ELSE LoadTexturesFrom(CreateGLTexture(s, SceneTextures[i][1], SceneTextures[i][2]), i + 1)

\* void LoadSceneTextures()
LoadSceneTextures(s) == BindGLTextures(LoadTexturesFrom(s, 1))

\* m_basicMeshes->Load<kind>Mesh()
LoadMesh(s, kind) ==
    Live(s, [s EXCEPT !.m_basicMeshes[kind] = @ + 1,
                      !.glCalls = Append(@, <<"load", kind, <<>> >>)])

\* m_basicMeshes->Draw<kind>Mesh(): one draw submission
DrawMesh(s, kind) == Live(s, [s EXCEPT !.glCalls = Append(@, <<"draw", kind, <<>> >>)])

\* PrepareScene that loads the meshes first and sets the lights before it
\* defines the materials
PrepareSceneMeshesFirst(s) ==
    LET meshed == LoadMesh(LoadMesh(LoadMesh(LoadMesh(LoadMesh(s,
                      "Plane"), "Box"), "TaperedCylinder"), "Cylinder"), "Torus")
        textured == LoadSceneTextures(meshed)
        lit == SetupSceneLights(textured)
    IN  DefineObjectMaterials(lit)

\* PrepareScene that does nothing once the scene has been prepared
PrepareSceneOnce(s) ==
    IF Len(s.m_objectMaterials) > 0
    THEN s
    ELSE LET textured == LoadSceneTextures(s)
             defined == DefineObjectMaterials(textured)
             lit == SetupSceneLights(defined)
         IN  LoadMesh(LoadMesh(LoadMesh(LoadMesh(LoadMesh(lit,
                 "Plane"), "Box"), "TaperedCylinder"), "Cylinder"), "Torus")

\* void PrepareScene()
PrepareScene(s) ==
    LET textured == LoadSceneTextures(s)
        defined == DefineObjectMaterials(textured)
        lit == SetupSceneLights(defined)
    IN  LoadMesh(LoadMesh(LoadMesh(LoadMesh(LoadMesh(lit,
            "Plane"), "Box"), "TaperedCylinder"), "Cylinder"), "Torus")

\* the objects of RenderScene in program order: the arguments of
\* SetTransformations and SetShaderColor, the tags of SetShaderTexture and
\* SetShaderMaterial ("" where the call is absent) and the mesh drawn;
\* lengths in hundredths
SceneScript ==
    <<
       [scaleXYZ |-> <<2000, 100, 1000>>, rotationDegrees |-> <<0, 0, 0>>, positionXYZ |-> <<0, 0, 0>>,
        color |-> <<1, 1, 1, 1>>, textureTag |-> "floor", materialTag |-> "gravel", mesh |-> "Plane"],  \* lines 535-557
       [scaleXYZ |-> <<500, 70, 50>>, rotationDegrees |-> <<0, 0, 90>>, positionXYZ |-> <<300, 150, 300>>,
        color |-> <<1, 0, 0, 1>>, textureTag |-> "leg", materialTag |-> "metal", mesh |-> "Box"],  \* lines 560-580
       [scaleXYZ |-> <<500, 70, 50>>, rotationDegrees |-> <<0, 0, 90>>, positionXYZ |-> <<-300, 150, 300>>,
        color |-> <<1, 0, 0, 1>>, textureTag |-> "leg", materialTag |-> "metal", mesh |-> "Box"],  \* lines 582-602
       [scaleXYZ |-> <<500, 70, 50>>, rotationDegrees |-> <<0, 0, 90>>, positionXYZ |-> <<-300, 150, -300>>,
        color |-> <<1, 0, 0, 1>>, textureTag |-> "leg", materialTag |-> "metal", mesh |-> "Box"],  \* lines 604-624
       [scaleXYZ |-> <<500, 70, 50>>, rotationDegrees |-> <<0, 0, 90>>, positionXYZ |-> <<300, 150, -300>>,
        color |-> <<1, 0, 0, 1>>, textureTag |-> "leg", materialTag |-> "metal", mesh |-> "Box"],  \* lines 627-647
       [scaleXYZ |-> <<800, 100, 700>>, rotationDegrees |-> <<0, 0, 0>>, positionXYZ |-> <<0, 450, 0>>,
        color |-> <<0, 0, 1, 1>>, textureTag |-> "tabletop", materialTag |-> "wood", mesh |-> "Box"],  \* lines 650-670
       [scaleXYZ |-> <<500, 70, 50>>, rotationDegrees |-> <<0, 0, 90>>, positionXYZ |-> <<800, 100, 200>>,
        color |-> <<0, 0, 1, 1>>, textureTag |-> "leg", materialTag |-> "metal", mesh |-> "Box"],  \* lines 672-692
       [scaleXYZ |-> <<500, 70, 50>>, rotationDegrees |-> <<0, 0, 90>>, positionXYZ |-> <<200, 100, 200>>,
        color |-> <<0, 0, 1, 1>>, textureTag |-> "leg", materialTag |-> "metal", mesh |-> "Box"],  \* lines 694-714
       [scaleXYZ |-> <<500, 70, 50>>, rotationDegrees |-> <<0, 0, 90>>, positionXYZ |-> <<800, 500, 200>>,
        color |-> <<0, 0, 1, 1>>, textureTag |-> "leg", materialTag |-> "metal", mesh |-> "Box"],  \* lines 716-736
       [scaleXYZ |-> <<500, 70, 50>>, rotationDegrees |-> <<0, 0, 90>>, positionXYZ |-> <<200, 100, -200>>,
        color |-> <<0, 0, 1, 1>>, textureTag |-> "leg", materialTag |-> "metal", mesh |-> "Box"],  \* lines 738-758
       [scaleXYZ |-> <<500, 70, 50>>, rotationDegrees |-> <<0, 0, 90>>, positionXYZ |-> <<800, 100, -200>>,
        color |-> <<0, 0, 1, 1>>, textureTag |-> "leg", materialTag |-> "metal", mesh |-> "Box"],  \* lines 760-780
       [scaleXYZ |-> <<500, 70, 50>>, rotationDegrees |-> <<0, 0, 90>>, positionXYZ |-> <<800, 500, -200>>,
        color |-> <<0, 0, 1, 1>>, textureTag |-> "leg", materialTag |-> "metal", mesh |-> "Box"],  \* lines 782-802
       [scaleXYZ |-> <<600, 30, 30>>, rotationDegrees |-> <<0, 0, 0>>, positionXYZ |-> <<500, 150, -200>>,
        color |-> <<0, 0, 1, 1>>, textureTag |-> "leg", materialTag |-> "metal", mesh |-> "Box"],  \* lines 804-824
       [scaleXYZ |-> <<600, 30, 30>>, rotationDegrees |-> <<0, 0, 0>>, positionXYZ |-> <<500, 150, 200>>,
        color |-> <<0, 0, 1, 1>>, textureTag |-> "leg", materialTag |-> "metal", mesh |-> "Box"],  \* lines 826-846
       [scaleXYZ |-> <<650, 70, 50>>, rotationDegrees |-> <<0, 0, 0>>, positionXYZ |-> <<490, 350, -200>>,
        color |-> <<0, 0, 1, 1>>, textureTag |-> "leg", materialTag |-> "metal", mesh |-> "Box"],  \* lines 848-868
       [scaleXYZ |-> <<650, 70, 50>>, rotationDegrees |-> <<0, 0, 0>>, positionXYZ |-> <<490, 350, 200>>,
        color |-> <<0, 0, 1, 1>>, textureTag |-> "leg", materialTag |-> "metal", mesh |-> "Box"],  \* lines 870-890
       [scaleXYZ |-> <<650, 70, 350>>, rotationDegrees |-> <<0, 0, 0>>, positionXYZ |-> <<500, 350, 0>>,
        color |-> <<0, 0, 1, 1>>, textureTag |-> "tabletop", materialTag |-> "wood", mesh |-> "Box"],  \* lines 892-912
       [scaleXYZ |-> <<400, 70, 50>>, rotationDegrees |-> <<0, 90, 0>>, positionXYZ |-> <<800, 450, 0>>,
        color |-> <<0, 0, 1, 1>>, textureTag |-> "leg", materialTag |-> "metal", mesh |-> "Box"],  \* lines 914-934
       [scaleXYZ |-> <<400, 70, 50>>, rotationDegrees |-> <<0, 90, 0>>, positionXYZ |-> <<800, 550, 0>>,
        color |-> <<0, 0, 1, 1>>, textureTag |-> "leg", materialTag |-> "metal", mesh |-> "Box"],  \* lines 936-956
       [scaleXYZ |-> <<400, 70, 50>>, rotationDegrees |-> <<0, 90, 0>>, positionXYZ |-> <<800, 650, 0>>,
        color |-> <<0, 0, 1, 1>>, textureTag |-> "leg", materialTag |-> "metal", mesh |-> "Box"],  \* lines 958-978
       [scaleXYZ |-> <<500, 70, 50>>, rotationDegrees |-> <<0, 0, 90>>, positionXYZ |-> <<-800, 100, 200>>,
        color |-> <<0, 0, 1, 1>>, textureTag |-> "leg", materialTag |-> "metal", mesh |-> "Box"],  \* lines 980-1000
       [scaleXYZ |-> <<500, 70, 50>>, rotationDegrees |-> <<0, 0, 90>>, positionXYZ |-> <<-200, 100, 200>>,
        color |-> <<0, 0, 1, 1>>, textureTag |-> "leg", materialTag |-> "metal", mesh |-> "Box"],  \* lines 1002-1022
       [scaleXYZ |-> <<500, 70, 50>>, rotationDegrees |-> <<0, 0, 90>>, positionXYZ |-> <<-800, 500, 200>>,
        color |-> <<0, 0, 1, 1>>, textureTag |-> "leg", materialTag |-> "metal", mesh |-> "Box"],  \* lines 1024-1044
       [scaleXYZ |-> <<500, 70, 50>>, rotationDegrees |-> <<0, 0, 90>>, positionXYZ |-> <<-200, 100, -200>>,
        color |-> <<0, 0, 1, 1>>, textureTag |-> "leg", materialTag |-> "metal", mesh |-> "Box"],  \* lines 1046-1066
       [scaleXYZ |-> <<500, 70, 50>>, rotationDegrees |-> <<0, 0, 90>>, positionXYZ |-> <<-800, 100, -200>>,
        color |-> <<0, 0, 1, 1>>, textureTag |-> "leg", materialTag |-> "metal", mesh |-> "Box"],  \* lines 1068-1088
       [scaleXYZ |-> <<500, 70, 50>>, rotationDegrees |-> <<0, 0, 90>>, positionXYZ |-> <<-800, 500, -200>>,
        color |-> <<0, 0, 1, 1>>, textureTag |-> "leg", materialTag |-> "metal", mesh |-> "Box"],  \* lines 1090-1110
       [scaleXYZ |-> <<600, 30, 30>>, rotationDegrees |-> <<0, 0, 0>>, positionXYZ |-> <<-500, 150, -200>>,
        color |-> <<0, 0, 1, 1>>, textureTag |-> "leg", materialTag |-> "metal", mesh |-> "Box"],  \* lines 1112-1132
       [scaleXYZ |-> <<600, 30, 30>>, rotationDegrees |-> <<0, 0, 0>>, positionXYZ |-> <<-500, 150, 200>>,
        color |-> <<0, 0, 1, 1>>, textureTag |-> "leg", materialTag |-> "metal", mesh |-> "Box"],  \* lines 1134-1154
       [scaleXYZ |-> <<650, 70, 50>>, rotationDegrees |-> <<0, 0, 0>>, positionXYZ |-> <<-490, 350, -200>>,
        color |-> <<0, 0, 1, 1>>, textureTag |-> "leg", materialTag |-> "metal", mesh |-> "Box"],  \* lines 1156-1176
       [scaleXYZ |-> <<650, 70, 50>>, rotationDegrees |-> <<0, 0, 0>>, positionXYZ |-> <<-490, 350, 200>>,
        color |-> <<0, 0, 1, 1>>, textureTag |-> "leg", materialTag |-> "metal", mesh |-> "Box"],  \* lines 1178-1198
       [scaleXYZ |-> <<650, 70, 350>>, rotationDegrees |-> <<0, 0, 0>>, positionXYZ |-> <<-500, 350, 0>>,
        color |-> <<0, 0, 1, 1>>, textureTag |-> "tabletop", materialTag |-> "wood", mesh |-> "Box"],  \* lines 1200-1220
       [scaleXYZ |-> <<400, 70, 50>>, rotationDegrees |-> <<0, 90, 0>>, positionXYZ |-> <<-800, 450, 0>>,
        color |-> <<0, 0, 1, 1>>, textureTag |-> "leg", materialTag |-> "metal", mesh |-> "Box"],  \* lines 1222-1242
       [scaleXYZ |-> <<400, 70, 50>>, rotationDegrees |-> <<0, 90, 0>>, positionXYZ |-> <<-800, 550, 0>>,
        color |-> <<0, 0, 1, 1>>, textureTag |-> "leg", materialTag |-> "metal", mesh |-> "Box"],  \* lines 1244-1264
       [scaleXYZ |-> <<400, 70, 50>>, rotationDegrees |-> <<0, 90, 0>>, positionXYZ |-> <<-800, 650, 0>>,
        color |-> <<0, 0, 1, 1>>, textureTag |-> "leg", materialTag |-> "metal", mesh |-> "Box"],  \* lines 1266-1286
       [scaleXYZ |-> <<100, -40, 50>>, rotationDegrees |-> <<0, 0, 0>>, positionXYZ |-> <<-200, 540, 0>>,
        color |-> <<0, 0, 1, 1>>, textureTag |-> "plate", materialTag |-> "porcelain", mesh |-> "TaperedCylinder"],  \* lines 1288-1308
       [scaleXYZ |-> <<100, -40, 50>>, rotationDegrees |-> <<0, 0, 0>>, positionXYZ |-> <<200, 540, 0>>,
        color |-> <<0, 0, 1, 1>>, textureTag |-> "plate", materialTag |-> "porcelain", mesh |-> "TaperedCylinder"],  \* lines 1310-1330
       [scaleXYZ |-> <<30, 2, 20>>, rotationDegrees |-> <<0, 0, 0>>, positionXYZ |-> <<100, 568, -100>>,
        color |-> <<0, 0, 1, 1>>, textureTag |-> "", materialTag |-> "", mesh |-> "Cylinder"],  \* lines 1332-1350
       [scaleXYZ |-> <<30, 70, 20>>, rotationDegrees |-> <<0, 0, 0>>, positionXYZ |-> <<100, 500, -100>>,
        color |-> <<0, 0, 1, 1>>, textureTag |-> "mug", materialTag |-> "glass", mesh |-> "Cylinder"],  \* lines 1352-1372
       [scaleXYZ |-> <<30, 2, 20>>, rotationDegrees |-> <<0, 0, 0>>, positionXYZ |-> <<-100, 568, -100>>,
        color |-> <<0, 0, 1, 1>>, textureTag |-> "", materialTag |-> "", mesh |-> "Cylinder"],  \* lines 1374-1392
       [scaleXYZ |-> <<30, 70, 20>>, rotationDegrees |-> <<0, 0, 0>>, positionXYZ |-> <<-100, 500, -100>>,
        color |-> <<0, 0, 1, 1>>, textureTag |-> "mug", materialTag |-> "glass", mesh |-> "Cylinder"],  \* lines 1394-1414
       [scaleXYZ |-> <<9, 25, 10>>, rotationDegrees |-> <<0, 0, 0>>, positionXYZ |-> <<-130, 535, -100>>,
        color |-> <<1, 0, 0, 1>>, textureTag |-> "mug", materialTag |-> "glass", mesh |-> "Torus"],  \* lines 1416-1436
       [scaleXYZ |-> <<9, 25, 10>>, rotationDegrees |-> <<0, 0, 0>>, positionXYZ |-> <<130, 535, -100>>,
        color |-> <<1, 0, 0, 1>>, textureTag |-> "mug", materialTag |-> "glass", mesh |-> "Torus"] >>  \* lines 1438-1458

\* an object whose material is set before its texture
DrawObjectMaterialFirst(s, d, material) ==
    LET transformed ==
            SetTransformations(s, d.scaleXYZ, d.rotationDegrees[1], d.rotationDegrees[2],
                               d.rotationDegrees[3], d.positionXYZ)
        coloured ==
            SetShaderColor(transformed, d.color[1], d.color[2], d.color[3], d.color[4])
        materialed ==
            IF d.materialTag # ""
            THEN SetShaderMaterial(coloured, d.materialTag, material)
            ELSE coloured
        textured ==
            IF d.textureTag # "" THEN SetShaderTexture(materialed, d.textureTag) ELSE materialed
    IN  DrawMesh(textured, d.mesh)

\* an object that is given a zero material when the script sets none
DrawObjectResetsMaterial(s, d, material) ==
    LET transformed ==
            SetTransformations(s, d.scaleXYZ, d.rotationDegrees[1], d.rotationDegrees[2],
                               d.rotationDegrees[3], d.positionXYZ)
        coloured ==
            SetShaderColor(transformed, d.color[1], d.color[2], d.color[3], d.color[4])
        textured ==
            IF d.textureTag # "" THEN SetShaderTexture(coloured, d.textureTag) ELSE coloured
        materialed ==
            IF d.materialTag # ""
            THEN SetShaderMaterial(textured, d.materialTag, material)
            ELSE ShaderSetAll(textured,
                     << <<"setVec3Value", "material.diffuseColor", <<0, 0, 0>> >>,
                        <<"setVec3Value", "material.specularColor", <<0, 0, 0>> >>,
                        <<"setFloatValue", "material.shininess", <<0>> >> >>,
                     1)
    IN  DrawMesh(materialed, d.mesh)

\* an object whose mesh is loaded right before it is drawn
DrawObjectLoadsMesh(s, d, material) ==
    LET transformed ==
            SetTransformations(s, d.scaleXYZ, d.rotationDegrees[1], d.rotationDegrees[2],
                               d.rotationDegrees[3], d.positionXYZ)
        coloured ==
            SetShaderColor(transformed, d.color[1], d.color[2], d.color[3], d.color[4])
        textured ==
            IF d.textureTag # "" THEN SetShaderTexture(coloured, d.textureTag) ELSE coloured
        materialed ==
            IF d.materialTag # ""
            THEN SetShaderMaterial(textured, d.materialTag, material)
            ELSE textured
    IN  DrawMesh(LoadMesh(materialed, d.mesh), d.mesh)

\* an object script in which the floor, like the liquids, sets no material
DrawObjectFloorKeepsMaterial(s, d, material) ==
    LET transformed ==
            SetTransformations(s, d.scaleXYZ, d.rotationDegrees[1], d.rotationDegrees[2],
                               d.rotationDegrees[3], d.positionXYZ)
        coloured ==
            SetShaderColor(transformed, d.color[1], d.color[2], d.color[3], d.color[4])
        textured ==
            IF d.textureTag # "" THEN SetShaderTexture(coloured, d.textureTag) ELSE coloured
        materialed ==
            IF d.materialTag \notin {"", "gravel"}
            THEN SetShaderMaterial(textured, d.materialTag, material)
            ELSE textured
    IN  DrawMesh(materialed, d.mesh)

\* one object of RenderScene: transform, colour, texture, material, draw
DrawObject(s, d, material) ==
    LET transformed ==
            SetTransformations(s, d.scaleXYZ, d.rotationDegrees[1], d.rotationDegrees[2],
                               d.rotationDegrees[3], d.positionXYZ)
        coloured ==
            SetShaderColor(transformed, d.color[1], d.color[2], d.color[3], d.color[4])
        textured ==
            IF d.textureTag # "" THEN SetShaderTexture(coloured, d.textureTag) ELSE coloured
        materialed ==
            IF d.materialTag # ""
            THEN SetShaderMaterial(textured, d.materialTag, material)
            ELSE textured
    IN  DrawMesh(materialed, d.mesh)

RECURSIVE RenderFrom(_, _, _)
\* the objects of RenderScene from the i-th on
RenderFrom(s, i, material) ==
    IF s.crashed \/ i > Len(SceneScript)
    THEN s
    ELSE RenderFrom(DrawObject(s, SceneScript[i], material), i + 1, material)

\* RenderScene that loads the scene textures again at the start of a frame
RenderSceneReloads(s, material) == RenderFrom(LoadSceneTextures(s), 1, material)

\* void RenderScene()
RenderScene(s, material) == RenderFrom(s, 1, material)

\* ------------------------------------------------------------------ inputs
\* tags the registry scenario loads and looks up
LoadTags == {"leg", "mug", "plate"}
LookupTags == LoadTags \cup {"floor", "wall"}

\* a directory with one image of each kind: 3 and 4 channels, an
\* undecodable file, 1 and 2 channels
FixtureFiles ==
    [f \in SceneFiles |->
        CASE f = "textures/Floor.jpg" -> 3
          [] f = "textures/Leg.jpg" -> 4
          [] f = "textures/Tabletop.jpg" -> 0
          [] f = "textures/Plate.jpg" -> 1
          [] f = "textures/Mug.jpg" -> 2]

\* what an uninitialised OBJECT_MATERIAL may hold: zeros or arbitrary bits
Uninitialised ==
    { [tag |-> "", diffuseColor |-> <<0, 0, 0>>, specularColor |-> <<0, 0, 0>>, shininess |-> 0],
      [tag |-> "", diffuseColor |-> <<123, 456, 789>>, specularColor |-> <<-1, -1, -1>>, shininess |-> -7] }

\* tags the binder scenario resolves: registered and unregistered ones
TextureLookupTags == {"floor", "leg", "mug"}
MaterialLookupTags == {"metal", "glass", "plastic"}
Colors == { <<1, 0, 0, 1>>, <<0, 0, 1, 1>> }
UVScales == { <<1, 1>>, <<2, 4>> }

\* arguments of SetTransformations in the composer scenario
Scales == { <<1, 1, 1>>, <<2, 1, 1>>, <<2, 3, 5>> }
Angles == {0, 90, 180}
Positions == { <<0, 0, 0>>, <<1, 0, 0>> }

\* the outcomes of a write past the end of m_textureIDs, for a call that
\* registers at most n textures: the write faults, or it lands in the memory
\* after the array
Faults(n) == IF m_loadedTextures + n > TextureSlots THEN BOOLEAN ELSE {FALSE}

\* ------------------------------------------------------------------- state
NoCall ==
    [op |-> "", tag |-> "", file |-> "", args |-> <<>>, loaded |-> 0, fresh |-> FALSE]

\* the call op(tag, file, args) made in the current state
Call(op, tag, file, args) ==
    [op |-> op, tag |-> tag, file |-> file, args |-> args,
     loaded |-> m_loadedTextures,
     fresh |-> FindTextureSlot(Cur, tag) = -1]

\* SceneManager(pShaderManager): the object after construction, with an
\* empty registry, in a fresh GL context
Constructed ==
    /\ m_pShaderManager \in {"shader", "null"}
    /\ m_textureIDs = [i \in 0..(TextureSlots - 1) |-> NoTexture]
    /\ m_loadedTextures = 0
    /\ m_objectMaterials = <<>>
    /\ m_basicMeshes = [k \in MeshKinds |-> 0]
    /\ glNextName = 1
    /\ glTextures = {}
    /\ glActiveUnit = 0
    /\ glUnitBinding = [i \in 0..(TextureSlots - 1) |-> 0]
    /\ uniforms = [n \in UniformNames |-> UniformDefault(n)]
    /\ glCalls = <<>>
    /\ crashed = FALSE
    /\ prepares = 0
    /\ lastCall = NoCall
    /\ lastRet = 0
    /\ lastSlot = -1

Init == Constructed /\ imageFiles = FixtureFiles

\* directories of the scene scenario: each file undecodable, of 2 channels or
\* of 4 channels
SceneOutcomes == {0, 2, 4}

InitScene ==
    /\ Constructed
    /\ imageFiles \in [SceneFiles -> SceneOutcomes]
    /\ Cardinality({f \in SceneFiles : imageFiles[f] \notin {3, 4}}) <= MaxBadFiles

\* the state after a handler that ends in s
Commit(s) ==
    \E t \in {s} :
        /\ m_textureIDs' = t.m_textureIDs
        /\ m_loadedTextures' = t.m_loadedTextures
        /\ m_objectMaterials' = t.m_objectMaterials
        /\ m_basicMeshes' = t.m_basicMeshes
        /\ glNextName' = t.glNextName
        /\ glTextures' = t.glTextures
        /\ glActiveUnit' = t.glActiveUnit
        /\ glUnitBinding' = t.glUnitBinding
        /\ uniforms' = t.uniforms
        /\ glCalls' = t.glCalls
        /\ crashed' = t.crashed
        /\ UNCHANGED <<m_pShaderManager, imageFiles>>

\* ----------------------------------------------------------------- actions
Call_CreateGLTexture(filename, tag) ==
    /\ ~crashed
    /\ glNextName <= MaxNames
    /\ \E f \in Faults(1) :
       LET s == CreateGLTexture(Faulting(f), filename, tag)
           call == Call("CreateGLTexture", tag, filename, <<stbi_load(filename)>>)
       IN  /\ Commit(s)
           /\ lastCall' = call
           /\ lastRet' = s.ret
           /\ lastSlot' = IF s.ret = 1
                          THEN (IF call.fresh THEN FindTextureSlot(s, tag) ELSE -1)
                          ELSE lastSlot
    /\ UNCHANGED prepares

Call_BindGLTextures ==
    /\ ~crashed
    /\ Commit(BindGLTextures(Cur))
    /\ lastCall' = Call("BindGLTextures", "", "", <<>>)
    /\ lastRet' = 0
    /\ UNCHANGED <<prepares, lastSlot>>

Call_DestroyGLTextures ==
    /\ ~crashed
    /\ glNextName <= MaxNames
    /\ Commit(DestroyGLTextures(Cur))
    /\ lastCall' = Call("DestroyGLTextures", "", "", <<>>)
    /\ lastRet' = 0
    /\ UNCHANGED <<prepares, lastSlot>>

Call_FindTextureID(tag) ==
    /\ ~crashed
    /\ Commit(Cur)
    /\ lastCall' = Call("FindTextureID", tag, "", <<>>)
    /\ lastRet' = FindTextureID(Cur, tag)
    /\ UNCHANGED <<prepares, lastSlot>>

Call_FindTextureSlot(tag) ==
    /\ ~crashed
    /\ Commit(Cur)
    /\ lastCall' = Call("FindTextureSlot", tag, "", <<>>)
    /\ lastRet' = FindTextureSlot(Cur, tag)
    /\ UNCHANGED <<prepares, lastSlot>>

Call_LoadSceneTextures ==
    /\ ~crashed
    /\ glNextName <= MaxNames
    /\ \E f \in Faults(Len(SceneTextures)) : Commit(LoadSceneTextures(Faulting(f)))
    /\ lastCall' = Call("LoadSceneTextures", "", "", <<>>)
    /\ lastRet' = 0
    /\ lastSlot' = -1
    /\ UNCHANGED prepares

Call_DefineObjectMaterials ==
    /\ ~crashed
    /\ Len(m_objectMaterials) < MaxDefines * Len(ScenePresets)
    /\ Commit(DefineObjectMaterials(Cur))
    /\ lastCall' = Call("DefineObjectMaterials", "", "", <<>>)
    /\ lastRet' = 0
    /\ UNCHANGED <<prepares, lastSlot>>

Call_FindMaterial(tag, material) ==
    /\ ~crashed
    /\ Commit(Cur)
    /\ lastCall' = Call("FindMaterial", tag, "", <<>>)
    /\ lastRet' = FindMaterial(Cur, tag, material).ret
    /\ UNCHANGED <<prepares, lastSlot>>

Call_SetShaderMaterial(materialTag, material) ==
    /\ ~crashed
    /\ Commit(SetShaderMaterial(Cur, materialTag, material))
    /\ lastCall' = Call("SetShaderMaterial", materialTag, "", <<>>)
    /\ lastRet' = 0
    /\ UNCHANGED <<prepares, lastSlot>>

Call_SetShaderColor(c) ==
    /\ ~crashed
    /\ Commit(SetShaderColor(Cur, c[1], c[2], c[3], c[4]))
    /\ lastCall' = Call("SetShaderColor", "", "", c)
    /\ lastRet' = 0
    /\ UNCHANGED <<prepares, lastSlot>>

Call_SetShaderTexture(textureTag) ==
    /\ ~crashed
    /\ Commit(SetShaderTexture(Cur, textureTag))
    /\ lastCall' = Call("SetShaderTexture", textureTag, "", <<>>)
    /\ lastRet' = 0
    /\ UNCHANGED <<prepares, lastSlot>>

Call_SetTextureUVScale(uv) ==
    /\ ~crashed
    /\ Commit(SetTextureUVScale(Cur, uv[1], uv[2]))
    /\ lastCall' = Call("SetTextureUVScale", "", "", uv)
    /\ lastRet' = 0
    /\ UNCHANGED <<prepares, lastSlot>>

Call_SetTransformations(scaleXYZ, rx, ry, rz, positionXYZ) ==
    /\ ~crashed
    /\ Commit(SetTransformations(Cur, scaleXYZ, rx, ry, rz, positionXYZ))
    /\ lastCall' = Call("SetTransformations", "", "", <<scaleXYZ, <<rx, ry, rz>>, positionXYZ>>)
    /\ lastRet' = 0
    /\ UNCHANGED <<prepares, lastSlot>>

Call_SetupSceneLights ==
    /\ ~crashed
    /\ Commit(SetupSceneLights(Cur))
    /\ lastCall' = Call("SetupSceneLights", "", "", <<>>)
    /\ lastRet' = 0
    /\ UNCHANGED <<prepares, lastSlot>>

Call_PrepareScene ==
    /\ ~crashed
    /\ prepares < MaxPrepares
    /\ \E f \in Faults(Len(SceneTextures)) : Commit(PrepareScene(Faulting(f)))
    /\ prepares' = prepares + 1
    /\ lastCall' = Call("PrepareScene", "", "", <<>>)
    /\ lastRet' = 0
    /\ lastSlot' = -1

Call_RenderScene(material) ==
    /\ ~crashed
    /\ Commit(RenderScene(Cur, material))
    /\ lastCall' = Call("RenderScene", "", "", <<>>)
    /\ lastRet' = 0
    /\ UNCHANGED <<prepares, lastSlot>>

\* ---------------------------------------------------------- specifications
\* the texture registry driven through its own interface
Next ==
    \/ \E f \in SceneFiles, tag \in LoadTags : Call_CreateGLTexture(f, tag)
    \/ Call_LoadSceneTextures
    \/ Call_BindGLTextures
    \/ \E tag \in LookupTags : Call_FindTextureID(tag)
    \/ \E tag \in LookupTags : Call_FindTextureSlot(tag)

Spec == Init /\ [][Next]_vars

\* the life of the GPU texture objects: loads and the bulk release
NextRelease ==
    \/ \E f \in SceneFiles, tag \in LoadTags : Call_CreateGLTexture(f, tag)
    \/ Call_LoadSceneTextures
    \/ Call_DestroyGLTextures

SpecRelease == Init /\ [][NextRelease]_vars

\* the material registry and the shader state binder
NextBinder ==
    \/ Call_LoadSceneTextures
    \/ Call_DefineObjectMaterials
    \/ \E tag \in MaterialLookupTags, m \in Uninitialised : Call_FindMaterial(tag, m)
    \/ \E tag \in MaterialLookupTags, m \in Uninitialised : Call_SetShaderMaterial(tag, m)
    \/ \E c \in Colors : Call_SetShaderColor(c)
    \/ \E tag \in TextureLookupTags : Call_SetShaderTexture(tag)
    \/ \E uv \in UVScales : Call_SetTextureUVScale(uv)

SpecBinder == Init /\ [][NextBinder]_vars

\* every operation that writes shader uniforms, with and without a shader
\* manager, over an empty and a defined material registry
NextUploads ==
    \/ Call_DefineObjectMaterials
    \/ \E sc \in Scales, p \in Positions : Call_SetTransformations(sc, 0, 90, 0, p)
    \/ \E c \in Colors : Call_SetShaderColor(c)
    \/ \E tag \in TextureLookupTags : Call_SetShaderTexture(tag)
    \/ \E uv \in UVScales : Call_SetTextureUVScale(uv)
    \/ \E tag \in MaterialLookupTags, m \in Uninitialised : Call_SetShaderMaterial(tag, m)
    \/ Call_SetupSceneLights

SpecUploads == Init /\ [][NextUploads]_vars

\* the transform composer
NextCompose ==
    \E sc \in Scales, rx \in Angles, ry \in Angles, rz \in Angles, p \in Positions :
        Call_SetTransformations(sc, rx, ry, rz, p)

SpecCompose == Init /\ [][NextCompose]_vars

\* PrepareScene and RenderScene over the contents of the texture directory
NextScene ==
    \/ Call_PrepareScene
    \/ \E m \in Uninitialised : Call_RenderScene(m)

SpecScene == InitScene /\ [][NextScene]_vars

\* ------------------------------------------------------------ properties
\* the slots in use, and the tags registered in them
UsedSlots == 0..(m_loadedTextures - 1)
RegisteredTags == {m_textureIDs[i].tag : i \in UsedSlots}
SlotsOf(tag) == {i \in UsedSlots : m_textureIDs[i].tag = tag}
EarliestSlot(tag) == CHOOSE i \in SlotsOf(tag) : \A j \in SlotsOf(tag) : i <= j
MaterialTags == {m_objectMaterials[i].tag : i \in DOMAIN m_objectMaterials}

\* a load failed after the GL context had generated a name for it
NameWasted == glNextName - 1 > m_loadedTextures

\* C1: FindMaterial with a tag that no entry of a non-empty material registry
\* carries returns false.
C1_FindMaterialAbsentTagNotFound ==
    (/\ lastCall.op = "FindMaterial"
     /\ Len(m_objectMaterials) > 0
     /\ lastCall.tag \notin MaterialTags)
    => lastRet = 0

\* C2: FindTextureSlot and FindTextureID return -1 for every tag that no
\* registered texture carries, in every state of the registry, the empty one
\* included.
C2_UnregisteredTagNotFound ==
    /\ \A tag \in LookupTags \cup {""} :
          tag \notin RegisteredTags
          => FindTextureSlot(Cur, tag) = -1 /\ FindTextureID(Cur, tag) = -1
    /\ (lastCall.op \in {"FindTextureSlot", "FindTextureID"}
        /\ lastCall.tag \notin RegisteredTags)
       => lastRet = -1

\* a lookup of an unregistered tag answered -1 while textures were registered
\* and a load had failed
C2_Witness ==
    /\ lastCall.op = "FindTextureID"
    /\ lastCall.tag = "wall"
    /\ lastRet = -1
    /\ m_loadedTextures >= 2
    /\ NameWasted

\* C3: a successful load of a 3- or 4-channel image under a tag not yet
\* registered makes FindTextureSlot(tag) the number of textures registered
\* before the load, and one more than the unit of the previous successful
\* load of a new tag, whatever loads failed in between.
C3_NewTagTakesNextUnit ==
    [][(/\ lastCall'.op = "CreateGLTexture"
        /\ lastCall'.args[1] \in {3, 4}
        /\ lastCall'.fresh)
       => (/\ lastRet' = 1
           /\ FindTextureSlot(Cur', lastCall'.tag) >= 0
           /\ FindTextureSlot(Cur', lastCall'.tag) = m_loadedTextures
           /\ lastSlot' = m_loadedTextures
           /\ (lastSlot >= 0 => lastSlot' = lastSlot + 1))]_vars

\* the third new tag was loaded at unit 2 after a load in between had failed
C3_Witness ==
    /\ lastCall.op = "CreateGLTexture"
    /\ lastCall.fresh
    /\ lastRet = 1
    /\ lastSlot = 2
    /\ FindTextureSlot(Cur, lastCall.tag) = 2
    /\ NameWasted

\* C4: a load of an image that cannot be decoded, or whose channel count is
\* not 3 or 4, returns false and leaves the count, every entry and every
\* lookup of the texture registry as they were.
C4_FailedLoadKeepsRegistry ==
    [][(/\ lastCall'.op = "CreateGLTexture"
        /\ lastCall'.args[1] \notin {3, 4})
       => (/\ lastRet' = 0
           /\ m_loadedTextures' = m_loadedTextures
           /\ m_textureIDs' = m_textureIDs
           /\ \A tag \in LookupTags :
                 /\ FindTextureSlot(Cur', tag) = FindTextureSlot(Cur, tag)
                 /\ FindTextureID(Cur', tag) = FindTextureID(Cur, tag))]_vars

\* a 1- or 2-channel load failed on a registry that holds its tag
C4_Witness ==
    /\ lastCall.op = "CreateGLTexture"
    /\ lastCall.args[1] \in {1, 2}
    /\ lastRet = 0
    /\ ~lastCall.fresh
    /\ m_loadedTextures >= 1
    /\ FindTextureSlot(Cur, lastCall.tag) >= 0

\* glm operator*(mat4, vec4)
MatVec(A, v) ==
    << A[1][1] * v[1] + A[1][2] * v[2] + A[1][3] * v[3] + A[1][4] * v[4],
       A[2][1] * v[1] + A[2][2] * v[2] + A[2][3] * v[3] + A[2][4] * v[4],
       A[3][1] * v[1] + A[3][2] * v[2] + A[3][3] * v[3] + A[3][4] * v[4],
       A[4][1] * v[1] + A[4][2] * v[2] + A[4][3] * v[3] + A[4][4] * v[4] >>

\* a point scaled, turned about the X, the Y and the Z axis and moved, one
\* step after the other
ScalePoint(sc, p) == <<sc[1] * p[1], sc[2] * p[2], sc[3] * p[3]>>
TurnX(deg, p) ==
    <<p[1], Cos90(deg) * p[2] - Sin90(deg) * p[3], Sin90(deg) * p[2] + Cos90(deg) * p[3]>>
TurnY(deg, p) ==
    <<Cos90(deg) * p[1] + Sin90(deg) * p[3], p[2], Cos90(deg) * p[3] - Sin90(deg) * p[1]>>
TurnZ(deg, p) ==
    <<Cos90(deg) * p[1] - Sin90(deg) * p[2], Sin90(deg) * p[1] + Cos90(deg) * p[2], p[3]>>
MovePoint(by, p) == <<p[1] + by[1], p[2] + by[2], p[3] + by[3]>>
Placed(sc, rot, pos, p) ==
    MovePoint(pos, TurnZ(rot[3], TurnY(rot[2], TurnX(rot[1], ScalePoint(sc, p)))))

ProbePoints ==
    { <<0, 0, 0>>, <<1, 0, 0>>, <<0, 1, 0>>, <<0, 0, 1>>, <<1, 2, 3>> }

\* C5: SetTransformations uploads under "model", and as its only upload, the
\* matrix that scales a point, turns it about X, then Y, then Z, and moves it
\* last; scale (1,1,1), rotation (0,0,0), translation (0,0,0) gives the
\* identity, and scale (2,1,1), rotation (0,90,0), translation (1,0,0) maps
\* the point (1,0,0) to (1,0,-2).
C5_ModelIsTRzRyRxS ==
    (lastCall.op = "SetTransformations" /\ m_pShaderManager # "null")
    => LET sc == lastCall.args[1]
           rot == lastCall.args[2]
           pos == lastCall.args[3]
           M == uniforms[g_ModelName]
       IN  /\ glCalls = << <<"setMat4Value", "model", M>> >>
           /\ M[4] = <<0, 0, 0, 1>>
           /\ \A p \in ProbePoints :
                 LET q == Placed(sc, rot, pos, p)
                 IN  MatVec(M, <<p[1], p[2], p[3], 1>>) = <<q[1], q[2], q[3], 1>>
           /\ (sc = <<1, 1, 1>> /\ rot = <<0, 0, 0>> /\ pos = <<0, 0, 0>>)
              => M = Identity4
           /\ (sc = <<2, 1, 1>> /\ rot = <<0, 90, 0>> /\ pos = <<1, 0, 0>>)
              => MatVec(M, <<1, 0, 0, 1>>) = <<1, 0, -2, 1>>

\* the matrix of scale (2,1,1), rotation (0,90,0), translation (1,0,0) is
\* uploaded
C5_Witness ==
    /\ lastCall.op = "SetTransformations"
    /\ m_pShaderManager # "null"
    /\ lastCall.args = << <<2, 1, 1>>, <<0, 90, 0>>, <<1, 0, 0>> >>
    /\ MatVec(uniforms[g_ModelName], <<1, 0, 0, 1>>) = <<1, 0, -2, 1>>

\* the draw submissions among the calls of the last operation
Draws == {i \in DOMAIN glCalls : glCalls[i][1] = "draw"}
DrawNumber(i) == Cardinality({j \in 1..i : glCalls[j][1] = "draw"})

RECURSIVE DrawAtOrBefore(_)
\* the index of the last draw submission at or before the i-th call, 0 if none
DrawAtOrBefore(i) ==
    IF i = 0 \/ glCalls[i][1] = "draw" THEN i ELSE DrawAtOrBefore(i - 1)

\* the calls after the draw submission before the i-th call, up to the i-th
GroupOf(i) == SubSeq(glCalls, DrawAtOrBefore(i - 1) + 1, i)

\* what a call is to a draw: the transform upload, the enabling of
\* texturing, the binding of the sampler, a material upload, the draw
\* submission, or something else (the flat colour and the disabling of
\* texturing by SetShaderColor)
KindOf(call) ==
    IF call[1] = "draw" THEN "draw"
    ELSE IF call[2] = g_ModelName THEN "transform"
    ELSE IF call[2] = g_UseTextureName /\ call[3] = <<1>> THEN "texture-enable"
    ELSE IF call[2] = g_TextureValueName THEN "texture-bind"
    ELSE IF call[2] \in {"material.diffuseColor", "material.specularColor",
                         "material.shininess"} THEN call[2]
    ELSE "other"

Counted(call) == KindOf(call) # "other"

KindsOf(calls) == [k \in DOMAIN calls |-> KindOf(calls[k])]

\* C6: in a RenderScene after PrepareScene there is one draw submission per
\* object of the script, each preceded since the draw submission before it
\* by exactly one upload of "model"; and for every object that has a texture
\* and a material the uploads since the draw submission before it are, in
\* this order and once each: "model", the enabling of bUseTexture and the
\* sampler objectTexture, the three material uniforms, and then the draw
\* submission itself.
C6_DrawGroupsInOrder ==
    (lastCall.op = "RenderScene" /\ prepares >= 1)
    => /\ Cardinality(Draws) = Len(SceneScript)
       /\ Len(glCalls) \in Draws
       /\ \A i \in Draws :
             LET d == SceneScript[DrawNumber(i)]
                 kinds == KindsOf(SelectSeq(GroupOf(i), Counted))
             IN  /\ glCalls[i][2] = d.mesh
                 /\ kinds[1] = "transform"
                 /\ kinds[Len(kinds)] = "draw"
                 /\ \A k \in 2..Len(kinds) : kinds[k] # "transform"
                 /\ (d.textureTag # "" /\ d.materialTag # "")
                    => kinds = <<"transform", "texture-enable", "texture-bind",
                                 "material.diffuseColor", "material.specularColor",
                                 "material.shininess", "draw">>

\* a frame after PrepareScene whose second draw is the box with texture
\* "leg", bound at unit 1, and material "metal"
C6_Witness ==
    /\ lastCall.op = "RenderScene"
    /\ prepares >= 1
    /\ \E i \in Draws :
          /\ DrawNumber(i) = 2
          /\ glCalls[i] = <<"draw", "Box", <<>> >>
          /\ glCalls[i - 1] = <<"setFloatValue", "material.shininess", <<85>> >>
          /\ glCalls[i - 4] = <<"setSampler2DValue", "objectTexture", <<1>> >>

\* C7: SetShaderMaterial with a tag whose lookup fails (the registry is
\* empty, or no entry carries the tag) uploads nothing and leaves the three
\* material uniforms as they were.
C7_FailedLookupUploadsNothing ==
    [][(/\ lastCall'.op = "SetShaderMaterial"
        /\ lastCall'.tag \notin MaterialTags)
       => (/\ glCalls' = <<>>
           /\ uniforms'["material.diffuseColor"] = uniforms["material.diffuseColor"]
           /\ uniforms'["material.specularColor"] = uniforms["material.specularColor"]
           /\ uniforms'["material.shininess"] = uniforms["material.shininess"])]_vars

\* C8: with a shader manager, SetShaderColor leaves bUseTexture off,
\* SetShaderTexture leaves it on, and no other operation of the binder or
\* of the registries changes it: at any later draw it is what the last of
\* the two calls made it.
C8_LastOfColorAndTextureWins ==
    [][m_pShaderManager # "null"
       => /\ lastCall'.op = "SetShaderColor" => uniforms'[g_UseTextureName] = <<0>>
          /\ lastCall'.op = "SetShaderTexture" => uniforms'[g_UseTextureName] = <<1>>
          /\ lastCall'.op \notin {"SetShaderColor", "SetShaderTexture"}
             => uniforms'[g_UseTextureName] = uniforms[g_UseTextureName]]_vars

\* SetShaderColor was called after a SetShaderTexture that had bound unit 1,
\* and texturing is off
C8_Witness ==
    /\ lastCall.op = "SetShaderColor"
    /\ m_pShaderManager # "null"
    /\ uniforms[g_TextureValueName] = <<1>>
    /\ uniforms[g_UseTextureName] = <<0>>

\* C9: for a tag that several registered textures carry, FindTextureSlot
\* returns the index and FindTextureID the handle of the earliest of them,
\* and no lookup returns the index or the handle of an entry registered
\* after another entry of the same tag.
C9_FirstMatchWins ==
    /\ \A tag \in RegisteredTags :
          /\ FindTextureSlot(Cur, tag) = EarliestSlot(tag)
          /\ FindTextureID(Cur, tag) = m_textureIDs[EarliestSlot(tag)].ID
    /\ \A j \in UsedSlots :
          j # EarliestSlot(m_textureIDs[j].tag)
          => \A tag \in LookupTags \cup RegisteredTags :
                /\ FindTextureSlot(Cur, tag) # j
                /\ FindTextureID(Cur, tag) # m_textureIDs[j].ID
    /\ (lastCall.op = "FindTextureSlot" /\ lastCall.tag \in RegisteredTags)
       => lastRet = EarliestSlot(lastCall.tag)
    /\ (lastCall.op = "FindTextureID" /\ lastCall.tag \in RegisteredTags)
       => lastRet = m_textureIDs[EarliestSlot(lastCall.tag)].ID

\* a lookup of a tag registered at slots 1 and 2, after another tag at slot
\* 0, answered the handle of slot 1
C9_Witness ==
    /\ lastCall.op = "FindTextureID"
    /\ SlotsOf(lastCall.tag) = {1, 2}
    /\ lastRet = m_textureIDs[1].ID
    /\ lastRet # m_textureIDs[2].ID

\* C10: when BindGLTextures or LoadSceneTextures returns, unit i is bound to
\* the handle of the i-th registered entry for every i below the count, so
\* for a tag registered once the unit FindTextureSlot returns is the unit
\* that holds the handle FindTextureID returns, also after failed loads.
C10_UnitHoldsEntry ==
    (lastCall.op \in {"BindGLTextures", "LoadSceneTextures"})
    => /\ \A i \in UsedSlots : glUnitBinding[i] = m_textureIDs[i].ID
       /\ \A tag \in RegisteredTags :
             Cardinality(SlotsOf(tag)) = 1
             => glUnitBinding[FindTextureSlot(Cur, tag)] = FindTextureID(Cur, tag)

\* textures are bound after three loads succeeded and one failed
C10_Witness ==
    /\ lastCall.op = "BindGLTextures"
    /\ m_loadedTextures = 3
    /\ NameWasted
    /\ \E tag \in RegisteredTags :
          /\ FindTextureSlot(Cur, tag) = 2
          /\ glUnitBinding[2] = FindTextureID(Cur, tag)
          /\ FindTextureID(Cur, tag) # 3

\* the indices written in the memory after the array m_textureIDs
Overrun == DOMAIN m_textureIDs \ (0..(TextureSlots - 1))

\* C11: after any sequence of loads, repeated PrepareScene calls included,
\* the number of registered textures is at most 16 and no entry was written
\* at an index of 16 or above, neither into the memory after the array nor
\* by a write there that faulted (with a shader manager nothing else ends
\* the program).
C11_RegistryWithinCapacity ==
    /\ m_loadedTextures <= TextureSlots
    /\ Overrun = {}
    /\ ~(crashed /\ m_pShaderManager # "null")

\* every image file of the scene decodes with 3 or 4 channels
AllLoadable == \A f \in SceneFiles : imageFiles[f] \in {3, 4}

\* the tags of the texture entries from slot a to slot b, and of the material
\* entries from the a-th to the b-th
TextureTagsOf(a, b) == [i \in 1..(b - a + 1) |-> m_textureIDs[a + i - 1].tag]
MaterialTagsOf(a, b) == [i \in 1..(b - a + 1) |-> m_objectMaterials[a + i - 1].tag]

\* C12: with every texture load succeeding, one PrepareScene leaves 5
\* texture entries and 5 material entries, and a second PrepareScene leaves
\* 10 and 10: the entries of the first call followed by the same tags again.
C12_PrepareTwiceDoubles ==
    (AllLoadable /\ ~crashed)
    => /\ prepares = 1 => (m_loadedTextures = 5 /\ Len(m_objectMaterials) = 5)
       /\ prepares = 2
          => /\ m_loadedTextures = 10
             /\ Len(m_objectMaterials) = 10
             /\ TextureTagsOf(5, 9) = TextureTagsOf(0, 4)
             /\ MaterialTagsOf(6, 10) = MaterialTagsOf(1, 5)
             /\ \A i \in 0..4 : m_textureIDs[i + 5].ID # m_textureIDs[i].ID

\* PrepareScene was called twice and the registries hold 10 entries each
C12_Witness ==
    /\ prepares = 2
    /\ lastCall.op = "PrepareScene"
    /\ ~crashed
    /\ m_loadedTextures = 10
    /\ Len(m_objectMaterials) = 10

\* C13: a load that fails because the image has a channel count other than
\* 3 and 4 creates no texture object: the set of live texture objects after
\* the call is the set before it.
C13_UnsupportedFormatCreatesNothing ==
    [][(/\ lastCall'.op = "CreateGLTexture"
        /\ lastCall'.args[1] \notin {0, 3, 4})
       => (/\ lastRet' = 0
           /\ glTextures' = glTextures
           /\ glNextName' = glNextName)]_vars

\* the index of the last upload of the uniform name among the first i calls,
\* 0 if there is none
LastUpload(calls, name, i) ==
    LET uploads == {j \in 1..i : calls[j][1] # "draw" /\ calls[j][2] = name}
    IN  IF uploads = {} THEN 0 ELSE CHOOSE j \in uploads : \A k \in uploads : k <= j

\* the value of the uniform name when the i-th of the calls is made, in an
\* operation that started with the uniform store pre
UniformAt(pre, calls, name, i) ==
    LET j == LastUpload(calls, name, i - 1)
    IN  IF j = 0 THEN pre[name] ELSE calls[j][3]

\* C14: when a texture load of PrepareScene failed, a later RenderScene still
\* submits every draw of the script, and every draw whose texture tag did
\* not load is submitted with bUseTexture off.
C14_FailedLoadDrawsUntextured ==
    (lastCall.op = "RenderScene" /\ prepares >= 1 /\ ~AllLoadable)
    => /\ ~crashed
       /\ Cardinality(Draws) = Len(SceneScript)
       /\ \A i \in Draws :
             LET d == SceneScript[DrawNumber(i)]
             IN  (d.textureTag # "" /\ d.textureTag \notin RegisteredTags)
                 => /\ LastUpload(glCalls, g_UseTextureName, i - 1) > 0
                    /\ UniformAt(uniforms, glCalls, g_UseTextureName, i) = <<0>>

\* C15: with a shader manager, SetShaderTexture with a tag that no
\* registered texture carries uploads bUseTexture on and then -1 as the
\* sampler objectTexture, and nothing else.
C15_UnresolvedTagBindsMinusOne ==
    [][(/\ lastCall'.op = "SetShaderTexture"
        /\ m_pShaderManager # "null"
        /\ lastCall'.tag \notin RegisteredTags)
       => (/\ glCalls' = << <<"setIntValue", g_UseTextureName, <<1>> >>,
                            <<"setSampler2DValue", g_TextureValueName, <<-1>> >> >>
           /\ uniforms'[g_UseTextureName] = <<1>>
           /\ uniforms'[g_TextureValueName] = <<-1>>)]_vars

\* SetShaderTexture("mug") was called after the scene textures were loaded,
\* of which the mug's image has 2 channels and did not load
C15_Witness ==
    /\ lastCall.op = "SetShaderTexture"
    /\ m_pShaderManager # "null"
    /\ m_loadedTextures > 0
    /\ lastCall.tag \notin RegisteredTags
    /\ uniforms[g_UseTextureName] = <<1>>
    /\ uniforms[g_TextureValueName] = <<-1>>

MaterialUniforms == {"material.diffuseColor", "material.specularColor", "material.shininess"}

\* C16: in every frame, a draw of the script that has no SetShaderMaterial of
\* its own (the two liquid cylinders) is submitted with the three material
\* uniforms holding what they held when the draw before it was submitted.
C16_MaterialIsSticky ==
    [][lastCall'.op = "RenderScene"
       => \A i \in Draws' :
             LET before == DrawAtOrBefore(i - 1)'
             IN  (SceneScript[DrawNumber(i)'].materialTag = "" /\ before > 0)
                 => \A name \in MaterialUniforms :
                       /\ LastUpload(glCalls', name, i - 1) < before
                       /\ UniformAt(uniforms, glCalls', name, i)
                            = UniformAt(uniforms, glCalls', name, before)]_vars

\* a frame after PrepareScene in which the first liquid cylinder, drawn after
\* a plate, is submitted with the plate's porcelain material
C16_Witness ==
    /\ lastCall.op = "RenderScene"
    /\ prepares >= 1
    /\ \E i \in Draws :
          /\ SceneScript[DrawNumber(i)].materialTag = ""
          /\ SceneScript[DrawNumber(i) - 1].materialTag = "porcelain"
          /\ glCalls[i] = <<"draw", "Cylinder", <<>> >>
          /\ UniformAt(uniforms, glCalls, "material.shininess", i) = <<80>>
          /\ UniformAt(uniforms, glCalls, "material.diffuseColor", i) = <<960, 960, 960>>

\* C17: in every frame after PrepareScene both liquid cylinders, which have
\* no SetShaderMaterial, are submitted with the glass material: diffuse
\* (1, 1, 1), specular (0.21, 0.21, 0.21), shininess 95.
C17_LiquidsDrawnAsGlass ==
    (lastCall.op = "RenderScene" /\ prepares >= 1)
    => \A i \in Draws :
          SceneScript[DrawNumber(i)].materialTag = ""
          => /\ UniformAt(uniforms, glCalls, "material.diffuseColor", i) = <<1000, 1000, 1000>>
             /\ UniformAt(uniforms, glCalls, "material.specularColor", i) = <<210, 210, 210>>
             /\ UniformAt(uniforms, glCalls, "material.shininess", i) = <<95>>

\* the texture loads, material definitions and mesh loads PrepareScene is to
\* make, in order
PreparedTextureTags == <<"floor", "leg", "tabletop", "plate", "mug">>
PreparedMaterialTags == <<"gravel", "metal", "wood", "porcelain", "glass">>
PreparedMeshes == <<"Plane", "Box", "TaperedCylinder", "Cylinder", "Torus">>

\* C18: what a PrepareScene call that returns did is, in this order: five
\* texture loads tagged floor, leg, tabletop, plate, mug; one pass of
\* bindings, unit i to the i-th registered texture; five material
\* definitions tagged gravel, metal, wood, porcelain, glass; the uploads of
\* the light configuration; one mesh load each of plane, box, tapered
\* cylinder, cylinder, torus.  When all loads succeed, after the first call
\* the five texture tags are at units 0..4 in that order and the material
\* registry is the five presets in that order.
C18_PrepareSceneOrder ==
    (lastCall.op = "PrepareScene" /\ ~crashed)
    => LET n == m_loadedTextures
           binds == SubSeq(glCalls, 6, 5 + n)
           defines == SubSeq(glCalls, 6 + n, 10 + n)
           lights == SubSeq(glCalls, 11 + n, 10 + n + Len(SceneLights))
           meshes == SubSeq(glCalls, 11 + n + Len(SceneLights), Len(glCalls))
       IN  /\ Len(glCalls) = 15 + n + Len(SceneLights)
           /\ \A i \in 1..5 :
                 /\ glCalls[i][1] = "CreateGLTexture"
                 /\ glCalls[i][2] = PreparedTextureTags[i]
           /\ \A i \in 1..n :
                 binds[i] = <<"glBindTexture", "GL_TEXTURE_2D", <<i - 1, m_textureIDs[i - 1].ID>> >>
           /\ \A i \in 1..5 : defines[i] = <<"push_back", PreparedMaterialTags[i], <<>> >>
           /\ lights = SceneLights
           /\ \A i \in 1..5 : meshes[i] = <<"load", PreparedMeshes[i], <<>> >>
           /\ (AllLoadable /\ prepares = 1)
              => /\ n = 5
                 /\ \A i \in 1..5 :
                       /\ m_textureIDs[i - 1].tag = PreparedTextureTags[i]
                       /\ FindTextureSlot(Cur, PreparedTextureTags[i]) = i - 1
                       /\ glUnitBinding[i - 1] = m_textureIDs[i - 1].ID
                 /\ Len(m_objectMaterials) = 5
                 /\ \A i \in 1..5 : m_objectMaterials[i].tag = PreparedMaterialTags[i]
                 /\ m_objectMaterials[5] =
                        [tag |-> "glass", diffuseColor |-> <<1000, 1000, 1000>>,
                         specularColor |-> <<210, 210, 210>>, shininess |-> 95]

\* the first PrepareScene returned with all five textures loaded
C18_Witness ==
    /\ lastCall.op = "PrepareScene"
    /\ ~crashed
    /\ prepares = 1
    /\ AllLoadable
    /\ FindTextureSlot(Cur, "mug") = 4
    /\ MaterialTags = {"gravel", "metal", "wood", "porcelain", "glass"}
    /\ \A k \in MeshKinds : m_basicMeshes[k] = 1

\* the names of the light uniforms
LightUniforms == {SceneLights[i][2] : i \in DOMAIN SceneLights}

\* C19: a RenderScene call leaves the texture registry (count and entries),
\* the material registry and every light uniform as they were; after
\* PrepareScene the light uniforms are those of SetupSceneLights, with the
\* directional light and the three point lights active and lighting on.
C19_RenderKeepsPreparedState ==
    [][lastCall'.op = "RenderScene"
       => /\ m_loadedTextures' = m_loadedTextures
          /\ m_textureIDs' = m_textureIDs
          /\ m_objectMaterials' = m_objectMaterials
          /\ \A name \in LightUniforms : uniforms'[name] = uniforms[name]
          /\ \A i \in DOMAIN glCalls' :
                glCalls'[i][1] = "draw" \/ glCalls'[i][2] \notin LightUniforms
          /\ prepares >= 1
             => /\ \A i \in DOMAIN SceneLights :
                      uniforms'[SceneLights[i][2]] = SceneLights[i][3]
                /\ uniforms'["directionalLight.bActive"] = <<1>>
                /\ uniforms'["pointLights[0].bActive"] = <<1>>
                /\ uniforms'["pointLights[1].bActive"] = <<1>>
                /\ uniforms'["pointLights[2].bActive"] = <<1>>
                /\ uniforms'[g_UseLightingName] = <<1>>]_vars

\* a frame rendered after PrepareScene (the last material uploaded is the
\* glass of the mug handles), with the registries and the lights as
\* PrepareScene left them
C19_Witness ==
    /\ lastCall.op = "RenderScene"
    /\ prepares = 1
    /\ m_loadedTextures = 5
    /\ Len(m_objectMaterials) = 5
    /\ uniforms["pointLights[2].position"] = <<-5000, 0, 10000>>
    /\ uniforms[g_UseLightingName] = <<1>>
    /\ uniforms["material.shininess"] = <<95>>

\* C20: after one PrepareScene each of the five mesh kinds has been loaded
\* exactly once, however many frames were rendered since; a RenderScene
\* call loads no mesh; and every draw submission of a frame after
\* PrepareScene is of a kind whose mesh was loaded before the frame.
C20_MeshesLoadedOnceBeforeDrawn ==
    [][/\ (prepares' = 1 /\ ~crashed')
          => \A k \in MeshKinds : m_basicMeshes'[k] = 1
       /\ lastCall'.op = "RenderScene"
          => /\ m_basicMeshes' = m_basicMeshes
             /\ \A i \in DOMAIN glCalls' : glCalls'[i][1] # "load"
             /\ prepares >= 1
                => \A i \in DOMAIN glCalls' :
                      glCalls'[i][1] = "draw"
                      => /\ glCalls'[i][2] \in MeshKinds
                         /\ m_basicMeshes[glCalls'[i][2]] >= 1]_vars

\* a frame rendered after one PrepareScene: 42 draw submissions, the last of
\* a torus, each mesh loaded once
C20_Witness ==
    /\ lastCall.op = "RenderScene"
    /\ prepares = 1
    /\ Cardinality(Draws) = 42
    /\ glCalls[Len(glCalls)] = <<"draw", "Torus", <<>> >>
    /\ \A k \in MeshKinds : m_basicMeshes[k] = 1

\* the handles of the registered textures
RegisteredIDs == {m_textureIDs[i].ID : i \in UsedSlots}

\* C21: when DestroyGLTextures returns, no texture object that a successful
\* load had created and registered is live any more, and the call has
\* created no texture object.
C21_DestroyReleasesRegistry ==
    [][lastCall'.op = "DestroyGLTextures"
       => /\ RegisteredIDs \cap glTextures' = {}
          /\ glTextures' \subseteq glTextures
          /\ glNextName' = glNextName]_vars

\* the uniforms RenderScene writes
WrittenByRender ==
    {g_ModelName, g_UseTextureName, g_ColorValueName, g_TextureValueName}
    \cup MaterialUniforms

\* the index of the first draw submission among calls
FirstDraw(calls) ==
    CHOOSE i \in DOMAIN calls :
        calls[i][1] = "draw" /\ \A j \in 1..(i - 1) : calls[j][1] # "draw"

\* C22: in a frame after PrepareScene every uniform RenderScene writes is
\* uploaded before the first draw submission, so the value in effect at any
\* draw is one the frame itself uploaded and not one the uniform store held
\* when the frame started; and a frame that follows another frame makes the
\* same uploads and draw submissions with the same values, so the values in
\* effect at the k-th draw are the same in both, for every k.
C22_FramesDoNotLeak ==
    [][(lastCall'.op = "RenderScene" /\ prepares >= 1)
       => /\ \A name \in WrittenByRender :
                LastUpload(glCalls', name, FirstDraw(glCalls') - 1) > 0
          /\ lastCall.op = "RenderScene" => glCalls' = glCalls]_vars

\* a frame after PrepareScene whose first draw, the floor, is submitted with
\* the gravel material and the floor's colour, all uploaded in the frame
C22_Witness ==
    /\ lastCall.op = "RenderScene"
    /\ prepares >= 1
    /\ \A name \in WrittenByRender :
          LastUpload(glCalls, name, FirstDraw(glCalls) - 1) > 0
    /\ UniformAt(uniforms, glCalls, "material.shininess", FirstDraw(glCalls)) = <<20>>
    /\ UniformAt(uniforms, glCalls, g_ColorValueName, FirstDraw(glCalls)) = <<1, 1, 1, 1>>
    /\ uniforms["material.shininess"] = <<95>>

\* the operations that write shader uniforms
UploadingOps ==
    {"SetTransformations", "SetShaderColor", "SetShaderTexture", "SetTextureUVScale",
     "SetShaderMaterial", "SetupSceneLights"}

\* C23: with a null shader manager each of SetTransformations,
\* SetShaderColor, SetShaderTexture, SetTextureUVScale, SetShaderMaterial
\* (also with a non-empty material registry) and SetupSceneLights uploads
\* nothing and does not dereference the null pointer.
C23_NullManagerIsGuarded ==
    [][(m_pShaderManager = "null" /\ lastCall'.op \in UploadingOps)
       => /\ ~crashed'
          /\ glCalls' = <<>>
          /\ uniforms' = uniforms]_vars

====
